---- MODULE Spec2Model ----
(***************************************************************************)
(* Flow-field navigation (package navigation) of TheLazyLemur/flow.        *)
(*                                                                         *)
(* The navigator owns a Grid (Costs, Distances, FlowField), a goal and the *)
(* isGoalSet flag.  SetGoal and UpdateCosts are modelled as whole calls    *)
(* (specification Spec); the relaxation loop of computeFlowField is also   *)
(* modelled one queue pop at a time (specification SpecRelax).  Both use   *)
(* the same step operators.                                                *)
(*                                                                         *)
(* Coordinates are 0-based as in the source; a cost matrix handed to       *)
(* UpdateCosts is a sequence of rows (1-based), so row y of the source is  *)
(* element y+1.  Go's int is a fixed-width two's complement integer; the   *)
(* width is scaled down to IntBits and math.MaxInt32 to the largest value  *)
(* of that width.                                                          *)
(***************************************************************************)
EXTENDS Integers, Sequences, FiniteSets, TLC

VARIABLES
    config,      \* FlowFieldNavigator.config
    Costs,       \* FlowFieldNavigator.grid.Costs      [y][x]
    Distances,   \* FlowFieldNavigator.grid.Distances  [y][x]
    FlowField,   \* FlowFieldNavigator.grid.FlowField  [y][x]
    goal,        \* FlowFieldNavigator.goal
    isGoalSet,   \* FlowFieldNavigator.isGoalSet
    queue,       \* the local work queue of a running computeFlowField
    pc,          \* "idle", or "relax" while computeFlowField is in its loop
    grid,        \* a Grid in a caller's hands (from GetGrid), with Costs and CellTypes
    lastCall,    \* the last call made and the error it returned
    calls,       \* the number of calls made so far
    enemies      \* EnemySystem.enemies

vars == <<config, Costs, Distances, FlowField, goal, isGoalSet, queue, pc, grid,
          lastCall, calls, enemies>>

navState == <<Costs, Distances, FlowField, goal, isGoalSet>>

----------------------------------------------------------------------------
(* Bounds of the model *)

GridWidth == 2
GridHeight == 2
MaxCost == 2
IntBits == 4
MaxCalls == 3

----------------------------------------------------------------------------
(* Machine integers *)

IntHalf == 2 ^ (IntBits - 1)

\* Go's int addition wraps around (two's complement).
WrapInt(v) == ((v + IntHalf) % (2 * IntHalf)) - IntHalf

\* math.MaxInt32, the "infinite" distance
MaxInt32 == IntHalf - 1

----------------------------------------------------------------------------
(* types.go *)

Pos(x, y) == [X |-> x, Y |-> y]

FourWayDirections == << Pos(0, -1), Pos(0, 1), Pos(-1, 0), Pos(1, 0) >>

EightWayDirections ==
    << Pos(0, -1), Pos(0, 1), Pos(-1, 0), Pos(1, 0),
       Pos(-1, -1), Pos(-1, 1), Pos(1, -1), Pos(1, 1) >>

\* Grid.Width and Grid.Height: NewGrid(config.GridWidth, config.GridHeight)
Width == config.GridWidth
Height == config.GridHeight

Xs == 0 .. (Width - 1)
Ys == 0 .. (Height - 1)
Cells == { Pos(x, y) : x \in Xs, y \in Ys }

\* NewGrid: every cost 1, every direction and distance the zero value
NewGridCosts == [y \in Ys |-> [x \in Xs |-> 1]]
NewGridDistances == [y \in Ys |-> [x \in Xs |-> 0]]
NewGridFlowField == [y \in Ys |-> [x \in Xs |-> Pos(0, 0)]]
NewGridCellTypes == [y \in Ys |-> [x \in Xs |-> "Passable"]]

IsValidPosition(pos) ==
    pos.X >= 0 /\ pos.X < Width /\ pos.Y >= 0 /\ pos.Y < Height

IsPassable(costs, pos) ==
    IF ~IsValidPosition(pos) THEN FALSE ELSE costs[pos.Y][pos.X] # -1

----------------------------------------------------------------------------
(* config.go *)

\* DiagonalCost is a float64; it is kept as the fraction DiagNum / DiagDen.
EightWayConfig(width, height) ==
    [GridWidth |-> width, GridHeight |-> height,
     Directions |-> EightWayDirections, DiagNum |-> 14, DiagDen |-> 10]

Validate(c) ==
    IF c.GridWidth <= 0 \/ c.GridHeight <= 0 THEN "grid dimensions must be positive"
    ELSE IF Len(c.Directions) = 0 THEN "must have at least one direction"
    ELSE IF c.DiagNum <= 0 THEN "diagonal cost must be positive"
    ELSE "nil"

\* The movement models a navigator is constructed with.
Configs ==
    { c \in { EightWayConfig(GridWidth, GridHeight),
              [EightWayConfig(GridWidth, GridHeight) EXCEPT !.Directions = FourWayDirections],
              [EightWayConfig(GridWidth, GridHeight) EXCEPT !.DiagNum = 1, !.DiagDen = 2],
              [EightWayConfig(GridWidth, GridHeight) EXCEPT !.Directions = << >>],
              [EightWayConfig(GridWidth, GridHeight) EXCEPT !.DiagNum = 0] } : Validate(c) = "nil" }

----------------------------------------------------------------------------
(* flowfield.go: computeFlowField *)

isDiagonal(dir) == dir.X # 0 /\ dir.Y # 0

\* int(float64(moveCost) * DiagonalCost): the conversion truncates toward zero
DiagonalMoveCost(cfg, moveCost) ==
    IF moveCost >= 0
    THEN (moveCost * cfg.DiagNum) \div cfg.DiagDen
    ELSE -(((-moveCost) * cfg.DiagNum) \div cfg.DiagDen)

MoveCost(cfg, costs, next, dir) ==
    IF isDiagonal(dir)
    THEN DiagonalMoveCost(cfg, costs[next.Y][next.X])
    ELSE costs[next.Y][next.X]

\* Mutant: a path of equal length counts as shorter.
ShorterOrEqual(newDist, oldDist) == newDist <= oldDist

\* "Update if we found a shorter path"
Shorter(newDist, oldDist) == newDist < oldDist

\* The body of the loop over config.Directions for one direction: st is
\* [dist, queue], the distances and the queue so far.
RelaxDirection(cfg, costs, st, current, currentDist, dir) ==
    LET next == Pos(current.X + dir.X, current.Y + dir.Y)
    IN  IF ~IsValidPosition(next) \/ ~IsPassable(costs, next)
        THEN st
        ELSE LET newDist == WrapInt(currentDist + MoveCost(cfg, costs, next, dir))
             IN  IF Shorter(newDist, st.dist[next.Y][next.X])
                 THEN [dist  |-> [st.dist EXCEPT ![next.Y][next.X] = newDist],
                       queue |-> Append(st.queue, next)]
                 ELSE st

RECURSIVE RelaxDirections(_, _, _, _, _, _)
RelaxDirections(cfg, costs, st, current, currentDist, i) ==
    IF i > Len(cfg.Directions)
    THEN st
    ELSE RelaxDirections(cfg, costs,
             RelaxDirection(cfg, costs, st, current, currentDist, cfg.Directions[i]),
             current, currentDist, i + 1)

\* One iteration of "for len(queue) > 0": pop the head, relax its neighbours.
PopAndRelax(cfg, costs, dist, q) ==
    LET current == Head(q)
    IN  RelaxDirections(cfg, costs, [dist |-> dist, queue |-> Tail(q)],
                        current, dist[current.Y][current.X], 1)

\* Phase 1 run until the queue is empty
RECURSIVE RunQueue(_, _, _, _)
RunQueue(cfg, costs, dist, q) ==
    IF q = << >>
    THEN dist
    ELSE LET st == PopAndRelax(cfg, costs, dist, q)
         IN  RunQueue(cfg, costs, st.dist, st.queue)

\* "Reset distances and flow field" and "Initialize goal"
ResetDistances(g) ==
    [y \in Ys |-> [x \in Xs |-> IF x = g.X /\ y = g.Y THEN 0 ELSE MaxInt32]]

\* Phase 2 for one cell: the first direction whose in-bounds neighbour has the
\* smallest distance below the cell's own.
RECURSIVE BestDirection(_, _, _, _, _, _)
BestDirection(cfg, dist, pos, bestDist, bestDir, i) ==
    IF i > Len(cfg.Directions)
    THEN bestDir
    ELSE LET dir == cfg.Directions[i]
             neighbor == Pos(pos.X + dir.X, pos.Y + dir.Y)
         IN  IF IsValidPosition(neighbor) /\ dist[neighbor.Y][neighbor.X] < bestDist
             THEN BestDirection(cfg, dist, pos, dist[neighbor.Y][neighbor.X], dir, i + 1)
             ELSE BestDirection(cfg, dist, pos, bestDist, bestDir, i + 1)

ComputeDirections(cfg, costs, g, dist) ==
    [y \in Ys |-> [x \in Xs |->
        IF ~IsPassable(costs, Pos(x, y)) \/ (x = g.X /\ y = g.Y)
        THEN Pos(0, 0)
        ELSE BestDirection(cfg, dist, Pos(x, y), dist[y][x], Pos(0, 0), 1)]]

\* The whole of computeFlowField: the field it leaves in the grid.
computeFlowField(cfg, costs, g) ==
    LET dist == RunQueue(cfg, costs, ResetDistances(g), << g >>)
    IN  [Distances |-> dist, FlowField |-> ComputeDirections(cfg, costs, g, dist)]

----------------------------------------------------------------------------
(* flowfield.go: the navigator's operations *)

NoPos == Pos(-1, -1)

Call(op, err, pos, dimsOk) == [op |-> op, err |-> err, pos |-> pos, dimsOk |-> dimsOk]

\* NewFlowFieldNavigator(config)
Init ==
    /\ config \in Configs
    /\ Costs = NewGridCosts
    /\ Distances = NewGridDistances
    /\ FlowField = NewGridFlowField
    /\ goal = Pos(0, 0)
    /\ isGoalSet = FALSE
    /\ queue = << >>
    /\ pc = "idle"
    /\ grid = [Costs |-> NewGridCosts, CellTypes |-> NewGridCellTypes]
    /\ lastCall = Call("NewFlowFieldNavigator", "nil", NoPos, TRUE)
    /\ calls = 0
    /\ enemies = << >>

\* Mutant: the goal is recorded before its cell is checked for passability.
SetGoalRecordsFirst(g) ==
    /\ pc = "idle"
    /\ calls < MaxCalls
    /\ calls' = calls + 1
    /\ UNCHANGED <<config, Costs, queue, pc, grid, enemies>>
    /\ IF ~IsValidPosition(g)
       THEN /\ lastCall' = Call("SetGoal", "ErrInvalidPosition", g, TRUE)
            /\ UNCHANGED <<Distances, FlowField, goal, isGoalSet>>
       ELSE /\ goal' = g
            /\ isGoalSet' = TRUE
            /\ IF ~IsPassable(Costs, g)
               THEN /\ lastCall' = Call("SetGoal", "ErrInvalidGoal", g, TRUE)
                    /\ UNCHANGED <<Distances, FlowField>>
               ELSE /\ Distances' = computeFlowField(config, Costs, g).Distances
                    /\ FlowField' = computeFlowField(config, Costs, g).FlowField
                    /\ lastCall' = Call("SetGoal", "nil", g, TRUE)

SetGoal(g) ==
    /\ pc = "idle"
    /\ calls < MaxCalls
    /\ calls' = calls + 1
    /\ UNCHANGED <<config, Costs, queue, pc, grid, enemies>>
    /\ IF ~IsValidPosition(g)
       THEN /\ lastCall' = Call("SetGoal", "ErrInvalidPosition", g, TRUE)
            /\ UNCHANGED <<Distances, FlowField, goal, isGoalSet>>
       ELSE IF ~IsPassable(Costs, g)
       THEN /\ lastCall' = Call("SetGoal", "ErrInvalidGoal", g, TRUE)
            /\ UNCHANGED <<Distances, FlowField, goal, isGoalSet>>
       ELSE LET field == computeFlowField(config, Costs, g)
            IN  /\ goal' = g
                /\ isGoalSet' = TRUE
                /\ Distances' = field.Distances
                /\ FlowField' = field.FlowField
                /\ lastCall' = Call("SetGoal", "nil", g, TRUE)

\* GetFlowDirection(pos): the direction and the error returned
GetFlowDirection(pos) ==
    IF ~isGoalSet THEN [dir |-> Pos(0, 0), err |-> "ErrInvalidGoal"]
    ELSE IF ~IsValidPosition(pos) THEN [dir |-> Pos(0, 0), err |-> "ErrInvalidPosition"]
    ELSE IF pos.X = goal.X /\ pos.Y = goal.Y THEN [dir |-> Pos(0, 0), err |-> "nil"]
    ELSE LET direction == FlowField[pos.Y][pos.X]
         IN  IF direction.X = 0 /\ direction.Y = 0 /\ (pos.X # goal.X \/ pos.Y # goal.Y)
             THEN [dir |-> Pos(0, 0), err |-> "ErrNoPath"]
             ELSE [dir |-> direction, err |-> "nil"]

\* The rows of the cost matrix `costs` that UpdateCosts copies before it
\* returns: all of them, or those before the first row of the wrong width.
FirstBadRow(costs) ==
    LET bad == { y \in Ys : Len(costs[y + 1]) # Width }
    IN  IF bad = {} THEN Height
        ELSE CHOOSE y \in bad : \A z \in bad : y <= z

CopiedCosts(costs) ==
    [y \in Ys |-> IF y < FirstBadRow(costs)
                  THEN [x \in Xs |-> costs[y + 1][x + 1]]
                  ELSE Costs[y]]

\* What the caller handed over: a matrix of the navigator's dimensions or not
DimensionsMatch(costs) ==
    /\ Len(costs) = Height
    /\ \A i \in 1 .. Len(costs) : Len(costs[i]) = Width

\* Mutant: the flag is left standing when the goal cell has become impassable.
ClearGoalForgotten == UNCHANGED isGoalSet

\* "f.isGoalSet = false" when the goal cell has become impassable
ClearGoal == isGoalSet' = FALSE

UpdateCosts(costs) ==
    /\ pc = "idle"
    /\ calls < MaxCalls
    /\ calls' = calls + 1
    /\ UNCHANGED <<config, queue, pc, goal, grid, enemies>>
    /\ IF Len(costs) # Height
       THEN /\ lastCall' = Call("UpdateCosts", "ErrHeightMismatch", NoPos, DimensionsMatch(costs))
            /\ UNCHANGED <<Costs, Distances, FlowField, isGoalSet>>
       ELSE IF FirstBadRow(costs) < Height
       THEN /\ Costs' = CopiedCosts(costs)
            /\ lastCall' = Call("UpdateCosts", "ErrWidthMismatch", NoPos, DimensionsMatch(costs))
            /\ UNCHANGED <<Distances, FlowField, isGoalSet>>
       ELSE /\ Costs' = CopiedCosts(costs)
            /\ IF isGoalSet
               THEN IF ~IsPassable(CopiedCosts(costs), goal)
                    THEN /\ ClearGoal
                         /\ lastCall' = Call("UpdateCosts", "ErrInvalidGoal", NoPos, DimensionsMatch(costs))
                         /\ UNCHANGED <<Distances, FlowField>>
                    ELSE LET field == computeFlowField(config, CopiedCosts(costs), goal)
                         IN  /\ Distances' = field.Distances
                             /\ FlowField' = field.FlowField
                             /\ lastCall' = Call("UpdateCosts", "nil", NoPos, DimensionsMatch(costs))
                             /\ UNCHANGED isGoalSet
               ELSE /\ lastCall' = Call("UpdateCosts", "nil", NoPos, DimensionsMatch(costs))
                    /\ UNCHANGED <<Distances, FlowField, isGoalSet>>

GetGoal == goal

\* GetGrid: a copy of costs, flow field and distances
GetGrid == [Costs |-> Costs, FlowField |-> FlowField, Distances |-> Distances]

----------------------------------------------------------------------------
(* The inputs of the calls *)

\* Costs a caller writes into a matrix: -1 (obstacle), 0 .. MaxCost, and a
\* negative number that is not the sentinel.
CostValues == { -2, -1 } \cup (0 .. MaxCost)

AllOnes == [y \in 1 .. Height |-> [x \in 1 .. Width |-> 1]]

\* Matrices of the navigator's dimensions: the default with one cell rewritten
\* (as setupObstacles and updateNavigationCosts build them).
CostGrids ==
    { [AllOnes EXCEPT ![y][x] = v] :
          y \in 1 .. Height, x \in 1 .. Width, v \in CostValues }

\* Matrices of other dimensions: a row missing, a row too many, one row too
\* short, one row too long.
BadGrids ==
    UNION { { SubSeq(m, 1, Height - 1), Append(m, m[1]) }
            \cup { [m EXCEPT ![r] = Tail(m[r])] : r \in 1 .. Height }
            \cup { [m EXCEPT ![r] = Append(m[r], 1)] : r \in 1 .. Height }
            : m \in CostGrids }

\* Goals a caller asks for: every cell, and a position off the grid in X and one in Y
GoalInputs == Cells \cup { Pos(-1, 0), Pos(0, Height) }

Next ==
    \/ \E g \in GoalInputs : SetGoal(g)
    \/ \E costs \in CostGrids \cup BadGrids : UpdateCosts(costs)

Spec == Init /\ [][Next]_vars

----------------------------------------------------------------------------
(* types.go: the setters, on the Grid a caller holds *)

\* SetCost(pos, cost) on Grid g: the Grid afterwards and the error returned
SetCost(g, pos, cost) ==
    IF ~IsValidPosition(pos) THEN [grid |-> g, err |-> "ErrInvalidPosition"]
    ELSE IF cost < 0 THEN [grid |-> g, err |-> "ErrInvalidCost"]
    ELSE [grid |-> [g EXCEPT !.Costs[pos.Y][pos.X] = cost], err |-> "nil"]

SetObstacle(g, pos) ==
    IF ~IsValidPosition(pos) THEN [grid |-> g, err |-> "ErrInvalidPosition"]
    ELSE [grid |-> [g EXCEPT !.Costs[pos.Y][pos.X] = -1,
                             !.CellTypes[pos.Y][pos.X] = "Obstacle"],
          err |-> "nil"]

SetBuilding(g, pos) ==
    IF ~IsValidPosition(pos) THEN [grid |-> g, err |-> "ErrInvalidPosition"]
    ELSE [grid |-> [g EXCEPT !.Costs[pos.Y][pos.X] = -1,
                             !.CellTypes[pos.Y][pos.X] = "Building"],
          err |-> "nil"]

NavigatorUnchanged ==
    UNCHANGED <<config, Costs, Distances, FlowField, goal, isGoalSet, queue, pc, enemies>>

CallSetCost(pos, cost) ==
    /\ pc = "idle"
    /\ calls < MaxCalls
    /\ calls' = calls + 1
    /\ grid' = SetCost(grid, pos, cost).grid
    /\ lastCall' = Call("SetCost", SetCost(grid, pos, cost).err, pos, TRUE)
    /\ NavigatorUnchanged

CallSetObstacle(pos) ==
    /\ pc = "idle"
    /\ calls < MaxCalls
    /\ calls' = calls + 1
    /\ grid' = SetObstacle(grid, pos).grid
    /\ lastCall' = Call("SetObstacle", SetObstacle(grid, pos).err, pos, TRUE)
    /\ NavigatorUnchanged

CallSetBuilding(pos) ==
    /\ pc = "idle"
    /\ calls < MaxCalls
    /\ calls' = calls + 1
    /\ grid' = SetBuilding(grid, pos).grid
    /\ lastCall' = Call("SetBuilding", SetBuilding(grid, pos).err, pos, TRUE)
    /\ NavigatorUnchanged

\* grid := navigator.GetGrid(): a new Grid with the navigator's costs copied in
CallGetGrid ==
    /\ pc = "idle"
    /\ calls < MaxCalls
    /\ calls' = calls + 1
    /\ grid' = [Costs |-> GetGrid.Costs, CellTypes |-> NewGridCellTypes]
    /\ lastCall' = Call("GetGrid", "nil", NoPos, TRUE)
    /\ NavigatorUnchanged

\* The matrix a caller builds from the costs of its Grid (costs[y] is a copy
\* of grid.Costs[y]).
MatrixOf(costs) == [y \in 1 .. Height |-> [x \in 1 .. Width |-> costs[y - 1][x - 1]]]

\* Costs a caller offers to SetCost
SetCostInputs == { -2, -1, 0, MaxCost }

NextGrid ==
    \/ \E p \in GoalInputs, c \in SetCostInputs : CallSetCost(p, c)
    \/ \E p \in GoalInputs : CallSetObstacle(p)
    \/ \E p \in GoalInputs : CallSetBuilding(p)
    \/ CallGetGrid
    \/ \E costs \in CostGrids \cup { MatrixOf(grid.Costs) } : UpdateCosts(costs)

SpecGrid == Init /\ [][NextGrid]_vars

----------------------------------------------------------------------------
(* flowfield.go: computeFlowField one queue pop at a time *)

\* SetGoal up to the first test of the queue in computeFlowField
StartSetGoal(g) ==
    /\ pc = "idle"
    /\ calls < MaxCalls
    /\ calls' = calls + 1
    /\ UNCHANGED <<config, Costs, grid, enemies>>
    /\ IF ~IsValidPosition(g)
       THEN /\ lastCall' = Call("SetGoal", "ErrInvalidPosition", g, TRUE)
            /\ UNCHANGED <<Distances, FlowField, goal, isGoalSet, queue, pc>>
       ELSE IF ~IsPassable(Costs, g)
       THEN /\ lastCall' = Call("SetGoal", "ErrInvalidGoal", g, TRUE)
            /\ UNCHANGED <<Distances, FlowField, goal, isGoalSet, queue, pc>>
       ELSE /\ goal' = g
            /\ isGoalSet' = TRUE
            /\ Distances' = ResetDistances(g)
            /\ FlowField' = NewGridFlowField
            /\ queue' = << g >>
            /\ pc' = "relax"
            /\ lastCall' = Call("SetGoal", "running", g, TRUE)

\* UpdateCosts up to the first test of the queue in computeFlowField
StartUpdateCosts(costs) ==
    /\ pc = "idle"
    /\ calls < MaxCalls
    /\ calls' = calls + 1
    /\ UNCHANGED <<config, goal, grid, enemies>>
    /\ IF Len(costs) # Height
       THEN /\ lastCall' = Call("UpdateCosts", "ErrHeightMismatch", NoPos, DimensionsMatch(costs))
            /\ UNCHANGED <<Costs, Distances, FlowField, isGoalSet, queue, pc>>
       ELSE IF FirstBadRow(costs) < Height
       THEN /\ Costs' = CopiedCosts(costs)
            /\ lastCall' = Call("UpdateCosts", "ErrWidthMismatch", NoPos, DimensionsMatch(costs))
            /\ UNCHANGED <<Distances, FlowField, isGoalSet, queue, pc>>
       ELSE /\ Costs' = CopiedCosts(costs)
            /\ IF isGoalSet
               THEN IF ~IsPassable(CopiedCosts(costs), goal)
                    THEN /\ ClearGoal
                         /\ lastCall' = Call("UpdateCosts", "ErrInvalidGoal", NoPos, DimensionsMatch(costs))
                         /\ UNCHANGED <<Distances, FlowField, queue, pc>>
                    ELSE /\ Distances' = ResetDistances(goal)
                         /\ FlowField' = NewGridFlowField
                         /\ queue' = << goal >>
                         /\ pc' = "relax"
                         /\ lastCall' = Call("UpdateCosts", "running", NoPos, DimensionsMatch(costs))
                         /\ UNCHANGED isGoalSet
               ELSE /\ lastCall' = Call("UpdateCosts", "nil", NoPos, DimensionsMatch(costs))
                    /\ UNCHANGED <<Distances, FlowField, isGoalSet, queue, pc>>

\* One iteration of the loop of phase 1
RelaxStep ==
    /\ pc = "relax"
    /\ queue # << >>
    /\ Distances' = PopAndRelax(config, Costs, Distances, queue).dist
    /\ queue' = PopAndRelax(config, Costs, Distances, queue).queue
    /\ UNCHANGED <<config, Costs, FlowField, goal, isGoalSet, pc, grid, lastCall, calls, enemies>>

\* The queue is empty: phase 2, and the call returns nil
FinishCompute ==
    /\ pc = "relax"
    /\ queue = << >>
    /\ FlowField' = ComputeDirections(config, Costs, goal, Distances)
    /\ pc' = "idle"
    /\ lastCall' = [lastCall EXCEPT !.err = "nil"]
    /\ UNCHANGED <<config, Costs, Distances, goal, isGoalSet, queue, grid, calls, enemies>>

NextRelax ==
    \/ \E g \in GoalInputs : StartSetGoal(g)
    \/ \E costs \in CostGrids \cup BadGrids : StartUpdateCosts(costs)
    \/ RelaxStep
    \/ FinishCompute

\* A call runs to its end: the loop is not suspended.
SpecRelax ==
    Init /\ [][NextRelax]_vars /\ WF_vars(RelaxStep) /\ WF_vars(FinishCompute)

----------------------------------------------------------------------------
(* Reference definitions used by the properties *)

Zero == Pos(0, 0)

DistAt(p) == Distances[p.Y][p.X]
FlowAt(p) == FlowField[p.Y][p.X]
CostAt(p) == Costs[p.Y][p.X]

DirSet == { config.Directions[i] : i \in 1 .. Len(config.Directions) }

\* The last call recomputed the field and returned no error.
FieldFresh ==
    /\ isGoalSet
    /\ lastCall.op \in { "SetGoal", "UpdateCosts" }
    /\ lastCall.err = "nil"

\* Every cost is a traversal cost (>= 0) or the sentinel -1.
CostsInRange == \A p \in Cells : CostAt(p) >= -1

\* The cells connected to g: g itself and every passable cell that a chain
\* of allowed steps through passable cells joins to g.
RECURSIVE ReachFrom(_, _)
ReachFrom(R, n) ==
    IF n = 0 THEN R
    ELSE ReachFrom(R \cup { p \in Cells :
                        /\ IsPassable(Costs, p)
                        /\ \E r \in R, d \in DirSet : p = Pos(r.X + d.X, r.Y + d.Y) },
                   n - 1)

Connected == ReachFrom({ goal }, Cardinality(Cells))

----------------------------------------------------------------------------
(* C1 *)

\* C1: in every reachable state with a goal set, the stored distances and flow
\* directions are what the recomputation yields from the current costs and the
\* current goal (no caller reads a field computed from older costs).
C1_FieldMatchesCostsAndGoal ==
    isGoalSet =>
        /\ Distances = computeFlowField(config, Costs, goal).Distances
        /\ FlowField = computeFlowField(config, Costs, goal).FlowField

----------------------------------------------------------------------------
(* C2 *)

SetGoalStep == lastCall'.op = "SetGoal" /\ calls' = calls + 1

\* C2: SetGoal(p) returns ErrInvalidPosition when p is off the grid and
\* ErrInvalidGoal when p is on the grid with cost -1, and a failing SetGoal
\* changes neither goal, isGoalSet, costs, distances nor flow directions.
C2_SetGoalFailureIsNoOp ==
    [][ SetGoalStep =>
          LET p == lastCall'.pos
          IN  /\ ~IsValidPosition(p) => lastCall'.err = "ErrInvalidPosition"
              /\ (IsValidPosition(p) /\ CostAt(p) = -1) => lastCall'.err = "ErrInvalidGoal"
              /\ lastCall'.err # "nil" => UNCHANGED navState ]_vars

\* A blocked cell was asked for while another goal was set.
C2_Witness ==
    /\ lastCall.op = "SetGoal"
    /\ lastCall.err = "ErrInvalidGoal"
    /\ isGoalSet
    /\ goal # lastCall.pos

----------------------------------------------------------------------------
(* C3 *)

UpdateCostsStep == lastCall'.op = "UpdateCosts" /\ calls' = calls + 1

\* C3: an UpdateCosts whose matrix has a wrong number of rows, or a row of the
\* wrong width, fails with a dimension-mismatch error and replaces no cost
\* (goal, isGoalSet and the field are unchanged too); costs change only when
\* every row matches.
C3_MismatchReplacesNothing ==
    [][ UpdateCostsStep =>
          /\ ~lastCall'.dimsOk =>
                /\ lastCall'.err \in { "ErrHeightMismatch", "ErrWidthMismatch" }
                /\ UNCHANGED navState
          /\ Costs' # Costs => lastCall'.dimsOk ]_vars

----------------------------------------------------------------------------
(* C4 *)

\* C4: with a goal set, a dimension-matching UpdateCosts that leaves the goal
\* cell at cost -1 returns ErrInvalidGoal and clears isGoalSet; otherwise it
\* keeps the goal and leaves the recomputed field.  While isGoalSet is false
\* GetFlowDirection returns ErrInvalidGoal for every position, and only a
\* successful SetGoal sets the flag again.
C4_GoalClearedUntilNextSetGoal ==
    /\ [][ (UpdateCostsStep /\ lastCall'.dimsOk /\ isGoalSet) =>
             IF Costs'[goal.Y][goal.X] = -1
             THEN lastCall'.err = "ErrInvalidGoal" /\ ~isGoalSet'
             ELSE /\ lastCall'.err = "nil"
                  /\ isGoalSet' /\ goal' = goal
                  /\ Distances' = computeFlowField(config, Costs', goal).Distances
                  /\ FlowField' = computeFlowField(config, Costs', goal).FlowField ]_vars
    /\ [][ (~isGoalSet /\ isGoalSet') =>
             (lastCall'.op = "SetGoal" /\ lastCall'.err = "nil") ]_vars
    /\ [](~isGoalSet =>
             \A p \in Cells \cup { Pos(-1, 0), Pos(0, Height) } :
                 GetFlowDirection(p).err = "ErrInvalidGoal")

\* UpdateCosts has just blocked the goal cell and cleared the flag.
C4_Witness ==
    /\ lastCall.op = "UpdateCosts"
    /\ lastCall.err = "ErrInvalidGoal"
    /\ ~isGoalSet
    /\ CostAt(goal) = -1

----------------------------------------------------------------------------
(* C5 *)

\* C5: with a goal set, GetFlowDirection returns ErrNoPath for a cell other
\* than the goal exactly when the cell is not connected to the goal; every
\* connected passable cell has a non-zero direction.  Stated for the states
\* left by a successful recomputation over costs >= -1.
C5_NoPathIffDisconnected ==
    (FieldFresh /\ CostsInRange) =>
        \A p \in Cells \ { goal } :
            (GetFlowDirection(p).err = "ErrNoPath") <=> (p \notin Connected)

----------------------------------------------------------------------------
(* C6 *)

\* The number of steps the stored directions take from p to the goal, or -1
\* when the walk stops on a cell with no direction, leaves the passable
\* cells, or has not arrived after `fuel` steps.
RECURSIVE WalkSteps(_, _)
WalkSteps(p, fuel) ==
    IF p = goal THEN 0
    ELSE IF fuel = 0 \/ ~IsPassable(Costs, p) \/ FlowAt(p) = Zero THEN -1
    ELSE LET n == WalkSteps(Pos(p.X + FlowAt(p).X, p.Y + FlowAt(p).Y), fuel - 1)
         IN  IF n = -1 THEN -1 ELSE n + 1

PositiveCosts == { CostAt(p) : p \in Cells } \cap (1 .. MaxCost)

MinPositiveCost == CHOOSE c \in PositiveCosts : \A d \in PositiveCosts : c <= d

\* C6: after a successful recomputation, the walk along the stored directions
\* from any cell connected to the goal stays on passable cells and reaches the
\* goal in at most (recorded distance / minimum positive cost) steps.  Stated
\* for costs >= -1.
C6_WalkReachesGoalWithinDistance ==
    (FieldFresh /\ CostsInRange) =>
        \A p \in Connected :
            LET n == WalkSteps(p, Cardinality(Cells))
            IN  /\ n # -1
                /\ PositiveCosts # {} => n * MinPositiveCost <= DistAt(p)

----------------------------------------------------------------------------
(* C7 *)

StepsInto(p) ==
    { d \in DirSet : IsValidPosition(Pos(p.X - d.X, p.Y - d.Y)) }

Min(S) == CHOOSE v \in S : \A w \in S : v <= w

\* Reference shortest distances by rounds of relaxation over all cells
\* (Bellman-Ford): after n rounds, the least cost of a chain of at most n
\* allowed steps from the goal through passable cells.
RECURSIVE RefRounds(_, _)
RefRounds(D, n) ==
    IF n = 0 THEN D
    ELSE RefRounds(
           [p \in Cells |->
              IF p = goal \/ ~IsPassable(Costs, p) THEN D[p]
              ELSE Min({ D[p] } \cup
                       { D[Pos(p.X - d.X, p.Y - d.Y)] + MoveCost(config, Costs, p, d) :
                           d \in { e \in StepsInto(p) :
                                     D[Pos(p.X - e.X, p.Y - e.Y)] < MaxInt32 } })],
           n - 1)

RefDistances ==
    RefRounds([p \in Cells |-> IF p = goal THEN 0 ELSE MaxInt32], Cardinality(Cells))

\* C7: after every successful SetGoal or UpdateCosts with a goal set, the goal
\* has distance 0 and direction (0,0) and every other cell's distance is the
\* least summed step cost over the chains from the goal (MaxInt32 if none).
C7_DistancesAreShortest ==
    FieldFresh =>
        /\ DistAt(goal) = 0
        /\ FlowAt(goal) = Zero
        /\ \A p \in Cells \ { goal } : DistAt(p) = RefDistances[p]

----------------------------------------------------------------------------
(* C8 *)

\* The distance of q is what relaxing from a passable neighbour gives.
RestsOnPassable(q) ==
    \E d \in StepsInto(q) :
        LET r == Pos(q.X - d.X, q.Y - d.Y)
        IN  /\ IsPassable(Costs, r)
            /\ DistAt(r) < MaxInt32
            /\ DistAt(q) = WrapInt(DistAt(r) + MoveCost(config, Costs, q, d))

\* C8: a cell of cost -1 has no finite distance and direction (0,0), and no
\* other cell's distance was obtained by relaxing through it.  Stated for the
\* states left by a goal-clearing UpdateCosts.
C8_ImpassableCellsOutsideField ==
    (lastCall.op = "UpdateCosts" /\ lastCall.err = "ErrInvalidGoal") =>
        /\ \A p \in Cells :
              CostAt(p) = -1 => (DistAt(p) = MaxInt32 /\ FlowAt(p) = Zero)
        /\ \A q \in Cells \ { goal } :
              (CostAt(q) # -1 /\ DistAt(q) < MaxInt32) => RestsOnPassable(q)

----------------------------------------------------------------------------
(* C9 *)

\* The stepwise computation leaves the field that computeFlowField gives.
RelaxAgreesWithWhole ==
    (pc = "idle" /\ FieldFresh) =>
        /\ Distances = computeFlowField(config, Costs, goal).Distances
        /\ FlowField = computeFlowField(config, Costs, goal).FlowField

\* C9: every recomputation that SetGoal or UpdateCosts starts comes to its
\* end: the queue runs empty and the call returns.
C9_RecomputationTerminates == (pc = "relax") ~> (pc = "idle")

\* A recomputation over a grid holding a negative cost other than -1 has ended.
C9_Witness ==
    /\ pc = "idle"
    /\ FieldFresh
    /\ \E p \in Cells : CostAt(p) < -1

----------------------------------------------------------------------------
(* C10 *)

\* C10: every cost, in the navigator's grid and in a Grid a caller holds, is
\* >= 0 or exactly -1; SetCost with a negative cost returns ErrInvalidCost
\* (ErrInvalidPosition off the grid) and leaves the Grid as it was.
C10_CostsNonNegativeOrSentinel ==
    /\ \A p \in Cells : CostAt(p) >= -1 /\ grid.Costs[p.Y][p.X] >= -1
    /\ \A p \in GoalInputs, c \in { -2, -1 } :
          /\ SetCost(grid, p, c).grid = grid
          /\ SetCost(grid, p, c).err =
                IF IsValidPosition(p) THEN "ErrInvalidCost" ELSE "ErrInvalidPosition"

----------------------------------------------------------------------------
(* C11 *)

\* The classification of the cells of the navigator's own grid: NewGrid's,
\* since neither SetGoal nor UpdateCosts writes CellTypes.
NavigatorCellTypes == NewGridCellTypes

Blocking == { "Obstacle", "Building" }

\* C11: in every reachable state, in the navigator's grid and in a Grid a
\* caller holds, a cell's cost is -1 exactly when its classification is
\* Obstacle or Building.
C11_SentinelIffBlockingType ==
    \A p \in Cells :
        /\ (grid.Costs[p.Y][p.X] = -1) <=> (grid.CellTypes[p.Y][p.X] \in Blocking)
        /\ (CostAt(p) = -1) <=> (NavigatorCellTypes[p.Y][p.X] \in Blocking)

----------------------------------------------------------------------------
(* C12 *)

\* The step replaces the costs by ones that differ in a single cell p, not the
\* goal, passable before, whose cost becomes larger and is >= 0.
RaisesOneCell ==
    \E p \in Cells \ { goal } :
        /\ IsPassable(Costs, p)
        /\ Costs'[p.Y][p.X] > Costs[p.Y][p.X]
        /\ Costs'[p.Y][p.X] >= 0
        /\ \A q \in Cells \ { p } : Costs'[q.Y][q.X] = Costs[q.Y][q.X]

\* C12: with a goal set, an UpdateCosts whose matrix differs from the current
\* costs only by a larger non-negative cost in one passable cell other than
\* the goal leaves no cell with a smaller distance than before the call.
C12_RaisingACostLowersNoDistance ==
    [][ (UpdateCostsStep /\ lastCall'.dimsOk /\ isGoalSet /\ RaisesOneCell) =>
          \A q \in Cells : Distances'[q.Y][q.X] >= Distances[q.Y][q.X] ]_vars

----------------------------------------------------------------------------
(* C13: a navigator over a 5x5 grid with the 8-way configuration *)

\* NewFlowFieldNavigator(EightWayConfig(5, 5))
InitDiagonal ==
    /\ config = EightWayConfig(5, 5)
    /\ Costs = NewGridCosts
    /\ Distances = NewGridDistances
    /\ FlowField = NewGridFlowField
    /\ goal = Pos(0, 0)
    /\ isGoalSet = FALSE
    /\ queue = << >>
    /\ pc = "idle"
    /\ grid = [Costs |-> NewGridCosts, CellTypes |-> NewGridCellTypes]
    /\ lastCall = Call("NewFlowFieldNavigator", "nil", NoPos, TRUE)
    /\ calls = 0
    /\ enemies = << >>

\* Goals asked for: the cells of the main diagonal (the centre (2,2) among
\* them) and a position off the grid
DiagonalGoals == { Pos(x, x) : x \in Xs } \cup { Pos(-1, 0) }

\* Matrices handed over: every cost 1 but for the cell between the corner
\* (0,0) and the centre, which is blocked, free, plain, or costly.
DiagonalCostGrids == { [AllOnes EXCEPT ![2][2] = v] : v \in { -1, 0, 1, MaxCost } }

NextDiagonal ==
    \/ \E g \in DiagonalGoals : SetGoal(g)
    \/ \E costs \in DiagonalCostGrids : UpdateCosts(costs)

SpecDiagonal == InitDiagonal /\ [][NextDiagonal]_vars

\* C13: on the 5x5 grid with every cost 1, goal (2,2), the 8-way directions
\* and diagonal multiplier 1.4, the recorded distance of cell (0,0) is
\* round(2 x 1.4) = 3.
C13_TwoDiagonalStepsCostThree ==
    (FieldFresh /\ goal = Pos(2, 2) /\ Costs = NewGridCosts) => DistAt(Pos(0, 0)) = 3

----------------------------------------------------------------------------
(* C14 *)

\* C14: whenever no goal is set, before the first successful SetGoal and
\* after UpdateCosts has cleared the goal, GetGoal returns the zero-valued
\* position (0,0).
C14_UnsetGoalReadsZero == ~isGoalSet => GetGoal = Pos(0, 0)

----------------------------------------------------------------------------
(* systems/enemy.go: arithmetic *)

\* A float32 is kept as an integer counting 1/Scale; products and quotients
\* are rounded toward zero.  NaN (the result of 0/0) is kept as a flag of the
\* Enemy that holds it.
Scale == 100

Quot(a, b) == IF a >= 0 THEN a \div b ELSE -((-a) \div b)

\* float32(n) and int(v): the conversion to int truncates toward zero
FromInt(n) == n * Scale
ToInt(v) == Quot(v, Scale)

FMul(a, b) == Quot(a * b, Scale)
FDiv(a, b) == Quot(a * Scale, b)

abs(x) == IF x < 0 THEN -x ELSE x

RECURSIVE SqrtBetween(_, _, _)
SqrtBetween(v, lo, hi) ==
    IF lo >= hi THEN lo
    ELSE LET mid == (lo + hi + 1) \div 2
         IN  IF mid * mid <= v THEN SqrtBetween(v, mid, hi)
             ELSE SqrtBetween(v, lo, mid - 1)

\* math.Sqrt, to 1/Scale
Sqrt(v) == SqrtBetween(v, 0, 40000)

Vector2(x, y) == [X |-> x, Y |-> y]

Vector2Length(v) == Sqrt(v.X * v.X + v.Y * v.Y)

Vector2Distance(a, b) == Vector2Length(Vector2(a.X - b.X, a.Y - b.Y))

----------------------------------------------------------------------------
(* systems/enemy.go: Config and Enemy *)

\* The Config the EnemySystem is constructed with: the navigator's grid
\* dimensions, and the pixel sizes and radii of main.go scaled to small cells.
enemyConfig ==
    [Width |-> Width, Height |-> Height,
     CellSize |-> 4, MarginX |-> 3, MarginY |-> 3,
     UnitSpeed |-> FromInt(2),
     SeparationRadius |-> FromInt(3), SeparationForce |-> FromInt(10),
     AlignmentRadius |-> FromInt(5), AlignmentForce |-> (3 * Scale) \div 10,
     CohesionRadius |-> FromInt(7), CohesionForce |-> (2 * Scale) \div 10,
     MaxSteerForce |-> (8 * Scale) \div 10]

\* The pixel position of the centre of a cell, as SpawnEnemies and Update
\* compute it: Margin + start * CellSize + CellSize / 2, in float32.
CellCentre(cfg, cell) ==
    Vector2(FromInt(cfg.MarginX) + FMul(FromInt(cell.X), FromInt(cfg.CellSize))
                + FromInt(cfg.CellSize) \div 2,
            FromInt(cfg.MarginY) + FMul(FromInt(cell.Y), FromInt(cfg.CellSize))
                + FromInt(cfg.CellSize) \div 2)

\* An Enemy: Position, Velocity and GridPos (TargetPos, Moving and Radius are
\* not read by Update).  nan: its vectors hold NaN.
Enemy(position, velocity, gridPos, nan) ==
    [Position |-> position, Velocity |-> velocity, GridPos |-> gridPos, nan |-> nan]

\* rl.GetRandomValue(0, Width-1), rl.GetRandomValue(Height-3, Height-1)
SpawnCells ==
    { Pos(x, y) : x \in 0 .. (enemyConfig.Width - 1),
                  y \in (enemyConfig.Height - 3) .. (enemyConfig.Height - 1) }

\* The Enemy that SpawnEnemies creates in `cell` with the random offsets `off`
NewEnemy(cfg, cell, off) ==
    Enemy(Vector2(CellCentre(cfg, cell).X + FromInt(off.X),
                  CellCentre(cfg, cell).Y + FromInt(off.Y)),
          Vector2(0, 0),
          Vector2(FromInt(cell.X), FromInt(cell.Y)),
          FALSE)

----------------------------------------------------------------------------
(* systems/enemy.go: the steering forces of enemy i among the enemies es *)

\* steer and count after a loop whose iterations add the terms of `terms`
RECURSIVE SumTerms(_, _)
SumTerms(terms, j) ==
    IF j > Len(terms) THEN [X |-> 0, Y |-> 0, count |-> 0]
    ELSE LET rest == SumTerms(terms, j + 1)
         IN  [X |-> terms[j].X + rest.X, Y |-> terms[j].Y + rest.Y,
              count |-> terms[j].count + rest.count]

NoTerm == [X |-> 0, Y |-> 0, count |-> 0]

\* One iteration of the loop of calculateSeparation.  Every comparison with a
\* NaN is false, so an Enemy holding NaN adds nothing.
SeparationTerm(cfg, enemy, other) ==
    LET dx == enemy.Position.X - other.Position.X
        dy == enemy.Position.Y - other.Position.Y
        dist == Sqrt(dx * dx + dy * dy)
        force == cfg.SeparationRadius - dist
    IN  IF enemy.nan \/ other.nan THEN NoTerm
        ELSE IF abs(dx) > cfg.SeparationRadius \/ abs(dy) > cfg.SeparationRadius
        THEN NoTerm
        ELSE IF dist > 0 /\ dist < cfg.SeparationRadius
        THEN [X |-> FDiv(FMul(FDiv(dx, dist), force), cfg.SeparationRadius),
              Y |-> FDiv(FMul(FDiv(dy, dist), force), cfg.SeparationRadius),
              count |-> 1]
        ELSE NoTerm

calculateSeparation(cfg, es, i) ==
    LET s == SumTerms([j \in 1 .. Len(es) |->
                          IF j = i THEN NoTerm ELSE SeparationTerm(cfg, es[i], es[j])], 1)
    IN  IF s.count > 0
        THEN Vector2(FMul(s.X, cfg.SeparationForce), FMul(s.Y, cfg.SeparationForce))
        ELSE Vector2(s.X, s.Y)

AlignmentTerm(cfg, enemy, other) ==
    LET dist == Vector2Distance(enemy.Position, other.Position)
    IN  IF enemy.nan \/ other.nan THEN NoTerm
        ELSE IF dist > 0 /\ dist < cfg.AlignmentRadius
        THEN [X |-> other.Velocity.X, Y |-> other.Velocity.Y, count |-> 1]
        ELSE NoTerm

calculateAlignment(cfg, es, i) ==
    LET s == SumTerms([j \in 1 .. Len(es) |->
                          IF j = i THEN NoTerm ELSE AlignmentTerm(cfg, es[i], es[j])], 1)
    IN  IF s.count > 0
        THEN Vector2(FMul(FDiv(s.X, FromInt(s.count)) - es[i].Velocity.X, cfg.AlignmentForce),
                     FMul(FDiv(s.Y, FromInt(s.count)) - es[i].Velocity.Y, cfg.AlignmentForce))
        ELSE Vector2(0, 0)

CohesionTerm(cfg, enemy, other) ==
    LET dist == Vector2Distance(enemy.Position, other.Position)
    IN  IF enemy.nan \/ other.nan THEN NoTerm
        ELSE IF dist > 0 /\ dist < cfg.CohesionRadius
        THEN [X |-> other.Position.X, Y |-> other.Position.Y, count |-> 1]
        ELSE NoTerm

calculateCohesion(cfg, es, i) ==
    LET s == SumTerms([j \in 1 .. Len(es) |->
                          IF j = i THEN NoTerm ELSE CohesionTerm(cfg, es[i], es[j])], 1)
    IN  IF s.count > 0
        THEN Vector2(FMul(FDiv(s.X, FromInt(s.count)) - es[i].Position.X, cfg.CohesionForce),
                     FMul(FDiv(s.Y, FromInt(s.count)) - es[i].Position.Y, cfg.CohesionForce))
        ELSE Vector2(0, 0)

\* int(enemy.GridPos.X), int(enemy.GridPos.Y)
GridCell(enemy) == Pos(ToInt(enemy.GridPos.X), ToInt(enemy.GridPos.Y))

\* One iteration of the loops of calculateObstacleAvoidance, for the cell at
\* offset d of the enemy's.  A blocked cell whose centre the enemy sits on
\* exactly gives 0/0.
ObstacleTerm(cfg, costs, enemy, gridCell, d) ==
    LET checkX == gridCell.X + d.X
        checkY == gridCell.Y + d.Y
        obstacleX == FromInt(cfg.MarginX + checkX * cfg.CellSize + cfg.CellSize \div 2)
        obstacleY == FromInt(cfg.MarginY + checkY * cfg.CellSize + cfg.CellSize \div 2)
        dx == enemy.Position.X - obstacleX
        dy == enemy.Position.Y - obstacleY
        dist == Sqrt(dx * dx + dy * dy)
        reach == (FromInt(cfg.CellSize) * 3) \div 2
        force == FDiv(reach - dist, reach)
    IN  IF ~(checkX >= 0 /\ checkX < cfg.Width /\ checkY >= 0 /\ checkY < cfg.Height)
        THEN [X |-> 0, Y |-> 0, nan |-> FALSE]
        ELSE IF costs[checkY][checkX] # -1 \/ enemy.nan
        THEN [X |-> 0, Y |-> 0, nan |-> FALSE]
        ELSE IF dist >= reach
        THEN [X |-> 0, Y |-> 0, nan |-> FALSE]
        ELSE IF dist = 0
        THEN [X |-> 0, Y |-> 0, nan |-> TRUE]
        ELSE [X |-> FMul(FDiv(dx, dist), force), Y |-> FMul(FDiv(dy, dist), force),
              nan |-> FALSE]

RECURSIVE SumObstacleTerms(_, _)
SumObstacleTerms(terms, j) ==
    IF j > Len(terms) THEN [X |-> 0, Y |-> 0, nan |-> FALSE]
    ELSE LET rest == SumObstacleTerms(terms, j + 1)
         IN  [X |-> terms[j].X + rest.X, Y |-> terms[j].Y + rest.Y,
              nan |-> terms[j].nan \/ rest.nan]

\* calculateObstacleAvoidance over the costs of navigator.GetGrid()
calculateObstacleAvoidance(cfg, costs, enemy, gridCell) ==
    SumObstacleTerms(
        [k \in 1 .. 8 |->
            ObstacleTerm(cfg, costs, enemy, gridCell,
                         << Pos(-1, -1), Pos(0, -1), Pos(1, -1), Pos(-1, 0),
                            Pos(1, 0), Pos(-1, 1), Pos(0, 1), Pos(1, 1) >>[k])], 1)

calculateFlowForce(cfg, gridCell) ==
    IF gridCell.X < 0 \/ gridCell.X >= cfg.Width \/ gridCell.Y < 0 \/ gridCell.Y >= cfg.Height
    THEN Vector2(0, 0)
    ELSE IF GetFlowDirection(gridCell).err # "nil"
    THEN Vector2(0, 0)
    ELSE Vector2(FMul(FromInt(GetFlowDirection(gridCell).dir.X), (8 * Scale) \div 10),
                 FMul(FromInt(GetFlowDirection(gridCell).dir.Y), (8 * Scale) \div 10))

----------------------------------------------------------------------------
(* systems/enemy.go: Update *)

\* "Check if reached goal": the truncated cell against navigator.GetGoal()
\* Mutant: only the column is compared with the goal's.
ArrivedInColumn(gridCell) == gridCell.X = GetGoal.X

Arrived(gridCell) == gridCell.X = GetGoal.X /\ gridCell.Y = GetGoal.Y

\* "Reset to random bottom position": the Enemy put into cell `start`
Respawned(cfg, start) ==
    Enemy(CellCentre(cfg, start), Vector2(0, 0),
          Vector2(FromInt(start.X), FromInt(start.Y)), FALSE)

\* "Calculate steering forces" and "Get flow field direction" for enemy i of
\* es, es being the enemies as they are when its iteration begins
Forces(cfg, es, i) ==
    [separation |-> calculateSeparation(cfg, es, i),
     alignment |-> calculateAlignment(cfg, es, i),
     cohesion |-> calculateCohesion(cfg, es, i),
     obstacleAvoid |-> calculateObstacleAvoidance(cfg, GetGrid.Costs, es[i], GridCell(es[i])),
     flowForce |-> calculateFlowForce(cfg, GridCell(es[i]))]

\* "Combine all forces"
TotalForce(f) ==
    Vector2(f.flowForce.X * 5 + FMul(f.separation.X, (5 * Scale) \div 10)
              + FMul(f.alignment.X, (2 * Scale) \div 10)
              + FMul(f.cohesion.X, Scale \div 10) + f.obstacleAvoid.X * 10,
            f.flowForce.Y * 5 + FMul(f.separation.Y, (5 * Scale) \div 10)
              + FMul(f.alignment.Y, (2 * Scale) \div 10)
              + FMul(f.cohesion.Y, Scale \div 10) + f.obstacleAvoid.Y * 10)

\* "Apply force to velocity"
Pushed(cfg, enemy, totalForce) ==
    Vector2(enemy.Velocity.X + FMul(totalForce.X, cfg.MaxSteerForce),
            enemy.Velocity.Y + FMul(totalForce.Y, cfg.MaxSteerForce))

\* "Limit velocity to max speed"
LimitSpeed(cfg, velocity, speed) ==
    IF speed > cfg.UnitSpeed
    THEN Vector2(FMul(FDiv(velocity.X, speed), cfg.UnitSpeed),
                 FMul(FDiv(velocity.Y, speed), cfg.UnitSpeed))
    ELSE velocity

Limited(cfg, velocity) == LimitSpeed(cfg, velocity, Vector2Length(velocity))

\* "Update grid position"
GridPosOf(cfg, position) ==
    Vector2(FDiv(position.X - FromInt(cfg.MarginX) - FromInt(cfg.CellSize) \div 2,
                 FromInt(cfg.CellSize)),
            FDiv(position.Y - FromInt(cfg.MarginY) - FromInt(cfg.CellSize) \div 2,
                 FromInt(cfg.CellSize)))

\* "Update position" and "Update grid position"
Moved(cfg, position, velocity) ==
    Enemy(Vector2(position.X + velocity.X, position.Y + velocity.Y), velocity,
          GridPosOf(cfg, Vector2(position.X + velocity.X, position.Y + velocity.Y)),
          FALSE)

\* The Enemy after integration, given its forces.  An Enemy holding NaN keeps
\* it, and a NaN force makes every vector of the Enemy NaN.
Integrated(cfg, enemy, f) ==
    IF enemy.nan THEN enemy
    ELSE IF f.obstacleAvoid.nan
    THEN Enemy(Vector2(0, 0), Vector2(0, 0), Vector2(0, 0), TRUE)
    ELSE Moved(cfg, enemy.Position, Limited(cfg, Pushed(cfg, enemy, TotalForce(f))))

\* The forces an iteration has computed and the Enemy after integration
Iteration(f, after) ==
    [separation |-> f.separation, alignment |-> f.alignment, cohesion |-> f.cohesion,
     after |-> after]

\* The body of the loop of Update for enemy i of es up to the goal check
UpdateEnemy(cfg, es, i) ==
    Iteration(Forces(cfg, es, i), Integrated(cfg, es[i], Forces(cfg, es, i)))

\* What int() gives for a NaN is implementation-defined: 0, or the smallest int
NaNCells == { Pos(0, 0), Pos(-(2 ^ 30), -(2 ^ 30)) }

\* The truncated cells the goal check can see for the Enemy after integration
TruncatedCells(after) == IF after.nan THEN NaNCells ELSE { GridCell(after) }

\* The goal check and reset for the Enemy after integration: the ways the
\* iteration can end.  The random numbers are drawn only when the enemy is
\* reset.  Each tells the truncated cell, whether the enemy was reset, and the
\* Enemy the iteration leaves.
GoalCheck(cfg, after) ==
    UNION { IF Arrived(gridCell)
            THEN { [gridCell |-> gridCell, reset |-> TRUE, enemy |-> Respawned(cfg, start)] :
                       start \in SpawnCells }
            ELSE { [gridCell |-> gridCell, reset |-> FALSE, enemy |-> after] }
            : gridCell \in TruncatedCells(after) }

\* What an iteration did: its forces, the Enemy after integration, and how
\* the goal check ended
LogEntry(r, c) ==
    [separation |-> r.separation, alignment |-> r.alignment, cohesion |-> r.cohesion,
     after |-> r.after, gridCell |-> c.gridCell, reset |-> c.reset]

\* The loop of Update from enemy i on: the ways it can end, each with the
\* enemies it leaves and, for every enemy, what its iteration did.
RECURSIVE UpdateFrom(_, _, _, _)
RECURSIVE UpdateRest(_, _, _, _, _)
UpdateFrom(cfg, es, log, i) ==
    IF i > Len(es) THEN { [enemies |-> es, log |-> log] }
    ELSE UpdateRest(cfg, es, log, i, UpdateEnemy(cfg, es, i))

\* The goal check of iteration i, r being what the iteration did so far, and
\* the iterations after it
UpdateRest(cfg, es, log, i, r) ==
    UNION { UpdateFrom(cfg, [es EXCEPT ![i] = c.enemy], Append(log, LogEntry(r, c)), i + 1)
            : c \in GoalCheck(cfg, r.after) }

\* The number of enemies spawned
EnemyCount == 2

\* rl.GetRandomValue(-10, 10) for X and Y: the offsets drawn
SpawnOffsets == { Pos(1, 1), Pos(-1, 0) }

\* SpawnEnemies(count): count new enemies are appended
SpawnEnemies(count) ==
    /\ pc = "idle"
    /\ calls < MaxCalls
    /\ calls' = calls + 1
    /\ Len(enemies) = 0
    /\ \E news \in [1 .. count -> { NewEnemy(enemyConfig, c, o) : c \in SpawnCells,
                                                                  o \in SpawnOffsets }] :
          enemies' = enemies \o news
    /\ lastCall' = Call("SpawnEnemies", "nil", NoPos, TRUE)
    /\ UNCHANGED <<config, Costs, Distances, FlowField, goal, isGoalSet, queue, pc, grid>>

\* EnemySystem.Update(): the whole loop over the enemies
Update ==
    /\ pc = "idle"
    /\ calls < MaxCalls
    /\ calls' = calls + 1
    /\ \E r \in UpdateFrom(enemyConfig, enemies, << >>, 1) :
          /\ enemies' = r.enemies
          /\ lastCall' = [op |-> "Update", err |-> "nil", pos |-> NoPos,
                          dimsOk |-> TRUE, log |-> r.log]
    /\ UNCHANGED <<config, Costs, Distances, FlowField, goal, isGoalSet, queue, pc, grid>>

\* NewFlowFieldNavigator(EightWayConfig(w, h)) and NewEnemySystem: a grid with
\* a row above the three rows enemies are spawned in
InitEnemy ==
    /\ config = EightWayConfig(GridWidth, GridHeight + 2)
    /\ Costs = NewGridCosts
    /\ Distances = NewGridDistances
    /\ FlowField = NewGridFlowField
    /\ goal = Pos(0, 0)
    /\ isGoalSet = FALSE
    /\ queue = << >>
    /\ pc = "idle"
    /\ grid = [Costs |-> NewGridCosts, CellTypes |-> NewGridCellTypes]
    /\ lastCall = Call("NewFlowFieldNavigator", "nil", NoPos, TRUE)
    /\ calls = 0
    /\ enemies = << >>

\* Goals clicked: a cell enemies are spawned in, and one in the row above
EnemyGoals == { Pos(0, Height - 3), Pos(Width - 1, 0) }

\* Obstacles placed: a cell of the last row, or of the row above it, both rows
\* enemies are spawned in
EnemyCostGrids ==
    { [AllOnes EXCEPT ![Height - 1][1] = -1], [AllOnes EXCEPT ![Height - 2][1] = -1] }

NextEnemy ==
    \/ \E g \in EnemyGoals : SetGoal(g)
    \/ \E costs \in EnemyCostGrids : UpdateCosts(costs)
    \/ SpawnEnemies(EnemyCount)
    \/ Update

SpecEnemy == InitEnemy /\ [][NextEnemy]_vars

-----------------------------------------------------------------------------
(* C15, C16: one call of EnemySystem.Update *)

\* A step of Update: lastCall' tells what each iteration of its loop did
UpdateStep == lastCall'.op = "Update" /\ calls' = calls + 1

\* C15: in every call of Update, the separation, alignment and cohesion forces
\* of every enemy are those computed from the positions and velocities all the
\* enemies had when the call began, so no enemy sees what an enemy earlier in
\* the slice has already become in this call.
C15_ForcesReadThePreviousStep ==
    [][ UpdateStep =>
          \A i \in 1 .. Len(enemies) :
              /\ lastCall'.log[i].separation = calculateSeparation(enemyConfig, enemies, i)
              /\ lastCall'.log[i].alignment = calculateAlignment(enemyConfig, enemies, i)
              /\ lastCall'.log[i].cohesion = calculateCohesion(enemyConfig, enemies, i)
      ]_vars

\* C16: in every call of Update, enemy i is reset exactly when the truncated
\* cell of its grid position after integration is the cell GetGoal returns; a
\* reset enemy stands still in the centre of a cell whose column is in
\* 0 .. Width-1 and whose row is in Height-3 .. Height-1; an enemy that is not
\* reset is left as integration made it; and the call leaves as many enemies
\* as it found.
C16_ResetExactlyOnArrival ==
    [][ UpdateStep =>
          /\ Len(enemies') = Len(enemies)
          /\ Len(lastCall'.log) = Len(enemies)
          /\ \A i \in 1 .. Len(enemies) :
                LET it == lastCall'.log[i]
                    atGoal == it.gridCell.X = goal.X /\ it.gridCell.Y = goal.Y
                IN  /\ it.gridCell \in TruncatedCells(it.after)
                    /\ it.reset <=> atGoal
                    /\ atGoal =>
                          /\ enemies'[i].Velocity = Vector2(0, 0)
                          /\ \E x \in 0 .. (Width - 1), y \in (Height - 3) .. (Height - 1) :
                                /\ enemies'[i].GridPos = Vector2(FromInt(x), FromInt(y))
                                /\ enemies'[i].Position = CellCentre(enemyConfig, Pos(x, y))
                    /\ ~atGoal => enemies'[i] = it.after
      ]_vars

\* C16 witness: a call of Update with a goal set has reset one enemy, which had
\* arrived, and has left another, which had not.
C16_Witness ==
    /\ lastCall.op = "Update"
    /\ isGoalSet
    /\ \E i, j \in 1 .. Len(enemies) :
          /\ lastCall.log[i].reset
          /\ lastCall.log[i].gridCell = goal
          /\ enemies[i].Velocity = Vector2(0, 0)
          /\ ~lastCall.log[j].reset
          /\ lastCall.log[j].gridCell # goal
          /\ enemies[j] = lastCall.log[j].after

-----------------------------------------------------------------------------
(* C17: a set goal is a passable cell of the grid *)

\* C17: whenever isGoalSet holds, the goal is a position of the grid whose cost
\* is not -1, so GetFlowDirection answers (0,0) without error only for cells
\* that are not blocked.
C17_SetGoalIsPassable ==
    isGoalSet =>
        /\ IsValidPosition(goal)
        /\ IsPassable(Costs, goal)
        /\ \A p \in Cells :
              GetFlowDirection(p) = [dir |-> Pos(0, 0), err |-> "nil"] => IsPassable(Costs, p)

====
